---- MODULE Spec2Model ----
(***************************************************************************)
(* Customer-Support-Copilot: the LangGraph orchestrator pipeline           *)
(* (agents/orchestrator.py, agents/classification_agent.py,               *)
(* agents/rag_agent.py, agents/response_agent.py,                          *)
(* embeddings/similarity_search.py) and the citation grounding engine      *)
(* (utils/citation_handler.py).                                            *)
(*                                                                         *)
(* Spec        the orchestrator: construction, invoke, the four graph nodes*)
(* SpecGround  CitationHandler.extract_and_process_citations on a response *)
(*             text and the context formatted from a retrieved snippet list*)
(* SpecChunk   SemanticChunker.chunk_text on a document and the embedding  *)
(*             provider's responses (scrapers/semantic_chunker.py)         *)
(* SpecStore   concurrent VectorStore.upsert_documents calls on one Qdrant *)
(*             server (embeddings/vector_store.py, database/qdrant_client) *)
(* SpecEmbed   GeminiEmbedder.embed_documents with its rate limiter and    *)
(*             retry loop (embeddings/gemini_embedder_improved.py)         *)
(* SpecBatch   classify_ticket_batch / resolve_tickets_batch under their   *)
(*             semaphore (agents/classification_agent.py,                  *)
(*             agents/resolution_agent.py)                                 *)
(* SpecClient  SimilaritySearch.search callers sharing the QdrantDBClient  *)
(*             singleton and its connection (database/qdrant_client.py)    *)
(* SpecTicket  ResolutionAgent.execute on one ticket: classification,      *)
(*             ticket store, RAG resolution or routing                     *)
(*             (agents/resolution_agent.py, agents/ticket_orchestrator.py) *)
(***************************************************************************)
EXTENDS Integers, Sequences, FiniteSets, TLC

VARIABLES
    pc,        \* orchestrator position: a graph node, or new/config_error/idle/END/raised
    host,      \* QDRANT_HOST of the process environment
    agents,    \* what the agents' constructors managed to initialise
    state,     \* the CopilotState dict threaded through the graph (key -> value)
    trace,     \* the graph nodes executed by the current invocation, in order
    env,       \* what the external services did during the current invocation
    rag,       \* the dict RAGAgent.execute returned in the current invocation
    gpc,       \* grounding position: "input" or "grounded"
    snippets,  \* grounding input: the retrieved snippet list
    rawText,   \* grounding input: the response text, as a token sequence
    cited,     \* grounding output: the CitedText (or the exception raised)
    cpc,       \* chunking position: "input" or "chunked"
    docText,   \* chunking input: the document text, a sequence of characters
    provider,  \* chunking input: what the embedding provider does for each batch
    workflow,  \* the ChunkingState the LangGraph workflow ended with
    chunks,    \* chunking output: the list chunk_text returned
    processed, \* process_documents output: the chunk payloads, and how the chunks were made
    store,     \* the Qdrant server: for each collection, whether it exists and its points
    jobs,      \* the concurrent VectorStore.upsert_documents calls (position, arguments)
    acked,     \* the <<collection, point>> pairs whose upsert the server acknowledged
    clock,     \* time.time(), in seconds
    embedder,  \* the GeminiEmbedder instance (request_times)
    issued,    \* the times of all provider requests made so far, in order
    embedCall, \* the embed_documents call under way or last finished
    semaphore, \* the value of the asyncio.Semaphore of the bulk operation
    ticketTasks, \* the per-ticket tasks of the bulk operation
    bulk,      \* the bulk operation: position, kind, completion order, returned list
    client,    \* QdrantDBClient._client of the singleton: 0 for None, else a connection
    conns,     \* the AsyncQdrantClient connections created so far
    callers,   \* the concurrent SimilaritySearch.search calls (position, locals)
    searches,  \* the connection each search was issued on, in order
    threads,   \* whether the callers are threads (else tasks of one event loop)
    tpc,       \* ticket processing position: classify_ticket, resolve_ticket or END
    tagents,   \* what the constructors of the ticket agents managed to initialise
    tstate,    \* the TicketState handed from stage to stage
    ticketDb   \* the ticket's document in the ticket store

pipeVars == <<pc, host, agents, state, trace, env, rag>>
groundVars == <<gpc, snippets, rawText, cited>>
chunkVars == <<cpc, docText, provider, workflow, chunks, processed>>
storeVars == <<store, jobs, acked>>
embedVars == <<clock, embedder, issued, embedCall>>
batchVars == <<semaphore, ticketTasks, bulk>>
clientVars == <<client, conns, callers, searches, threads>>
ticketVars == <<tpc, tagents, tstate, ticketDb>>
vars == <<pipeVars, groundVars, chunkVars, storeVars, embedVars, batchVars, clientVars, ticketVars>>
nonPipeVars == <<groundVars, chunkVars, storeVars, embedVars, batchVars, clientVars, ticketVars>>
nonGroundVars == <<pipeVars, chunkVars, storeVars, embedVars, batchVars, clientVars, ticketVars>>
nonChunkVars == <<pipeVars, groundVars, storeVars, embedVars, batchVars, clientVars, ticketVars>>
nonStoreVars == <<pipeVars, groundVars, chunkVars, embedVars, batchVars, clientVars, ticketVars>>
nonEmbedVars == <<pipeVars, groundVars, chunkVars, storeVars, batchVars, clientVars, ticketVars>>
nonBatchVars == <<pipeVars, groundVars, chunkVars, storeVars, embedVars, clientVars, ticketVars>>
nonClientVars == <<pipeVars, groundVars, chunkVars, storeVars, embedVars, batchVars, ticketVars>>
nonTicketVars == <<pipeVars, groundVars, chunkVars, storeVars, embedVars, batchVars, clientVars>>

(***************************************************************************)
(* Bounds                                                                  *)
(***************************************************************************)
MaxSnippets == 4      \* longest retrieved snippet list given to grounding
MaxMarkerLen == 2     \* longest response text drawn over the full token alphabet
MaxHeurLen == 4       \* longest response text drawn over the marker-free alphabet
MaxOrdinal == 3       \* largest ordinal the generator writes in a marker

(***************************************************************************)
(* Program constants                                                       *)
(***************************************************************************)
DocsLimit == 3        \* search("atlan_docs", ..., limit=3)
DevLimit == 2         \* search("atlan_developer", ..., limit=2)
SnippetLimit == 200   \* content_snippet cut in _create_citations_from_search_results
SourceCap == 3        \* sources[:3] in process_response_with_citations

SeqUpTo(S, n) == UNION {[1..k -> S] : k \in 0..n}

Range(s) == {s[i] : i \in 1..Len(s)}

(***************************************************************************)
(* URLs are kept as <<scheme, host, rest>> so that the code's prefix tests *)
(* (str.startswith) are computed and not assumed.  <<>> is a payload with  *)
(* no 'url' key.                                                           *)
(***************************************************************************)
UrlA == <<"https://", "docs.atlan.com", "/a">>
UrlLoop == <<"http://", "127.0.0.1", ":8000/doc">>
UrlHttpsLocal == <<"https://", "localhost", "/doc">>
UrlZ == <<"https://", "example.org", "/z">>
NoUrl == <<>>

\* str.startswith(prefix) for a prefix made of whole segments
StartsWith(u, p) == Len(u) >= Len(p) /\ \A i \in 1..Len(p) : u[i] = p[i]

\* url.startswith('http'): both schemes begin with the letters http
StartsWithHttp(u) == Len(u) >= 1 /\ u[1] \in {"http://", "https://"}

\* the host of the URL is a loopback/local one (what the spec calls local)
IsLoopbackHost(u) == Len(u) >= 2 /\ u[2] \in {"localhost", "127.0.0.1"}

(***************************************************************************)
(* The documents the vector store can return (search hit payloads).        *)
(* A1 and A2 are two chunks of the same page, so they share a URL.         *)
(***************************************************************************)
DocA1 == [url |-> UrlA, title |-> "tA1", content |-> "cA1", source |-> "docs"]
DocA2 == [url |-> UrlA, title |-> "tA2", content |-> "cA2", source |-> "docs"]
DocL == [url |-> UrlLoop, title |-> "tL", content |-> "cL", source |-> "docs"]
DocHL == [url |-> UrlHttpsLocal, title |-> "tHL", content |-> "cHL", source |-> "dev"]
Catalog == {DocA1, DocA2, DocL, DocHL}

\* len(content) of each catalogued content
ContentLen(c) == IF c = "cA2" THEN 450 ELSE 120

(***************************************************************************)
(* Python dicts are functions from keys to values; {**d, k: v} and         *)
(* dict.update are the left-biased merge @@ of the TLC module.             *)
(***************************************************************************)
Get(d, k, default) == IF k \in DOMAIN d THEN d[k] ELSE default

\* the prefix of s of length at most n (s[:n])
Take(s, n) == SubSeq(s, 1, IF Len(s) < n THEN Len(s) ELSE n)

(***************************************************************************)
(* Values of the CopilotState fields                                       *)
(***************************************************************************)
Queries == {"", "q1", "q2"}

NoneClassification == [kind |-> "None", sentiment |-> "", priority |-> ""]
ValidClassification == [kind |-> "dict", sentiment |-> "Neutral", priority |-> "P1"]

\* what the provider call of ClassificationAgent.execute can do
ClassifyOutcomes == {"ok", "throws", "malformed_json", "invalid_schema"}

NoneContext == [kind |-> "None", wrapped |-> FALSE, structured |-> FALSE, blocks |-> <<>>]
\* "Error: No query was provided to the RAG agent."
NoQueryContext == [kind |-> "error_no_query", wrapped |-> FALSE, structured |-> FALSE, blocks |-> <<>>]
\* "Error: The query could not be processed into an embedding."
EmbedErrorContext == [kind |-> "error_embedding", wrapped |-> FALSE, structured |-> FALSE, blocks |-> <<>>]

NoneResponse == [kind |-> "None", text |-> ""]
\* "Error: The response generation model is not available."
ErrNoModelResponse == [kind |-> "error_no_model", text |-> ""]
\* "Error: Missing query or context for response generation."
ErrMissingResponse == [kind |-> "error_missing", text |-> ""]
\* "Sorry, I encountered an error while trying to generate a response. Please try again."
Apology == [kind |-> "apology", text |-> ""]

LlmTexts == {"t1", "t2"}
LlmOutcomes == [ok : {TRUE}, text : LlmTexts] \cup {[ok |-> FALSE, text |-> ""]}

(***************************************************************************)
(* agents/classification_agent.py                                          *)
(***************************************************************************)
ClassificationExecute(st, model, tags, outcome) ==
    IF ~model THEN st
    ELSE IF Get(st, "subject", "") = "" \/ Get(st, "body", "") = "" THEN st
    ELSE IF ~tags THEN st
    ELSE IF outcome = "ok" THEN ("classification" :> ValidClassification) @@ st
    ELSE st

\* the provider call is reached and does not yield a valid classification
ClassifyCallMade(q, model, tags) == model /\ q # "" /\ tags

(***************************************************************************)
(* agents/rag_agent.py                                                     *)
(***************************************************************************)
\* SimilaritySearch.search: the hit payloads, or [] when the store call raises
Search(reachable, hits) == IF reachable THEN hits ELSE <<>>

\* one "--- Context Snippet i ---" block of _format_context
FormatBlock(i, doc) ==
    [n |-> i,
     source |-> doc.source,
     url |-> IF doc.url = NoUrl THEN <<"N/A">> ELSE doc.url,
     title |-> doc.title,
     content |-> doc.content]

FormatContext(search_results) ==
    IF search_results = <<>>
    THEN [kind |-> "no_relevant_documents", wrapped |-> FALSE, structured |-> FALSE,
          blocks |-> <<>>]
    ELSE [kind |-> "snippets", wrapped |-> FALSE, structured |-> FALSE,
          blocks |-> [i \in 1..Len(search_results) |-> FormatBlock(i, search_results[i])]]

\* result['content'][:200] + '...' when longer than 200 characters
ContentSnippet(c) == [of |-> c, cut |-> ContentLen(c) > SnippetLimit]

CitationUrl(url) ==
    IF url # NoUrl /\ (StartsWith(url, <<"http://", "localhost">>)
                       \/ StartsWith(url, <<"http://", "127.0.0.1">>))
    THEN NoUrl
    ELSE url

CreateCitationsFromSearchResults(search_results) ==
    [i \in 1..Len(search_results) |->
        [id |-> i,
         title |-> search_results[i].title,
         url |-> CitationUrl(search_results[i].url),
         source |-> search_results[i].source,
         content_snippet |-> ContentSnippet(search_results[i].content)]]

FormatStructuredContextWithCitations(raw_context, extractOk) ==
    [raw_context EXCEPT !.wrapped = TRUE, !.structured = extractOk]

\* the vector store is not configured: QDRANT_HOST unset or the placeholder
HostUnconfigured(h) == h \in {"unset", "placeholder"}

\* RAGAgent.execute: the returned dict, or the exception it raises
RAGExecute(st, embedOk, h, reachable, docsHits, devHits, extractOk) ==
    LET all_results == Search(reachable, docsHits) \o Search(reachable, devHits)
        citations == CreateCitationsFromSearchResults(all_results)
    IN  IF Get(st, "query", "") = ""
        THEN [raises |-> FALSE, value |-> ("context" :> NoQueryContext) @@ st]
        ELSE IF ~embedOk
        THEN [raises |-> FALSE, value |-> ("context" :> EmbedErrorContext) @@ st]
        ELSE IF HostUnconfigured(h)
        \* only `context` is bound on this branch; line 350 reads structured_context
        THEN [raises |-> TRUE, value |-> st]
        ELSE [raises |-> FALSE,
              value |-> ("context" :> FormatStructuredContextWithCitations(
                                          FormatContext(all_results), extractOk))
                        @@ ("citations" :> citations)
                        @@ ("extraction_metadata" :>
                               [success |-> extractOk, citation_count |-> Len(citations)])
                        @@ st]

(***************************************************************************)
(* agents/response_agent.py                                                *)
(***************************************************************************)
\* a FinalResponse that lets the exception text through as the answer
FinalResponseLeaksError(llm) ==
    IF llm.ok THEN [kind |-> "llm", text |-> llm.text]
    ELSE [kind |-> "exception", text |-> "provider error"]

\* the answer produced from the outcome of generate_content_async
FinalResponse(llm) == IF llm.ok THEN [kind |-> "llm", text |-> llm.text] ELSE Apology

\* the language-model call is reached
GenerateCallMade(st, model) ==
    model /\ Get(st, "query", "") # "" /\ Get(st, "context", NoneContext) # NoneContext

ResponseExecute(st, model, llm) ==
    IF ~model THEN ("response" :> ErrNoModelResponse) @@ st
    ELSE IF ~GenerateCallMade(st, model) THEN ("response" :> ErrMissingResponse) @@ st
    ELSE ("response" :> FinalResponse(llm)) @@ st

(***************************************************************************)
(* agents/orchestrator.py                                                  *)
(***************************************************************************)
EntryPoint == "classify"

Edges == [classify |-> "retrieve_context",
          retrieve_context |-> "delay_before_response",
          delay_before_response |-> "generate_response",
          generate_response |-> "END"]

NoRag == [called |-> FALSE, raises |-> FALSE, value |-> ("query" :> "")]
NoEnv == [classify |-> "not_called", embed |-> "not_called", search |-> "not_called",
          llm |-> "not_called"]

\* a state update that throws the previous state away
UpdateStateReplaces(st, update) == update

\* StateGraph(CopilotState): the dict a node returns is written over the state
\* key by key; the keys it does not name keep their values
UpdateState(st, update) == update @@ st

\* Orchestrator(): the agents are built; QdrantDBClient() raises without QDRANT_HOST
Construct ==
    /\ pc = "new"
    /\ IF host = "unset"
       THEN pc' = "config_error" /\ UNCHANGED agents
       ELSE /\ pc' = "idle"
            /\ agents' \in [classification : BOOLEAN, tags : BOOLEAN, response : BOOLEAN]
    /\ UNCHANGED <<host, state, trace, env, rag>>
    /\ UNCHANGED nonPipeVars

Invoke ==
    /\ pc \in {"idle", "END", "raised"}
    /\ \E query \in Queries : state' = ("query" :> query)
    /\ pc' = EntryPoint
    /\ trace' = <<>>
    /\ env' = NoEnv
    /\ rag' = NoRag
    /\ UNCHANGED <<host, agents>>
    /\ UNCHANGED nonPipeVars

RunClassification ==
    /\ pc = "classify"
    /\ \E outcome \in ClassifyOutcomes :
         LET input == [subject |-> state["query"], body |-> state["query"]]
             result_state == ClassificationExecute(input, agents.classification,
                                                   agents.tags, outcome)
         IN  /\ state' = UpdateState(state, "classification" :>
                             Get(result_state, "classification", NoneClassification))
             /\ env' = [env EXCEPT !.classify =
                          IF ClassifyCallMade(state["query"], agents.classification,
                                              agents.tags)
                          THEN outcome ELSE "skipped"]
    /\ trace' = Append(trace, pc)
    /\ pc' = Edges[pc]
    /\ UNCHANGED <<host, agents, rag>>
    /\ UNCHANGED nonPipeVars

RunRag ==
    /\ pc = "retrieve_context"
    /\ \E embedOk \in BOOLEAN, reachable \in BOOLEAN, extractOk \in BOOLEAN,
          docsHits \in SeqUpTo(Catalog, DocsLimit), devHits \in SeqUpTo(Catalog, DevLimit) :
         LET result == RAGExecute(state, embedOk, host, reachable, docsHits, devHits,
                                  extractOk)
             embedded == state["query"] # ""
             searched == embedded /\ embedOk /\ ~HostUnconfigured(host)
         IN  /\ embedded \/ embedOk
             /\ searched \/ (reachable /\ extractOk /\ docsHits = <<>> /\ devHits = <<>>)
             /\ reachable \/ (docsHits = <<>> /\ devHits = <<>>)
             /\ rag' = [called |-> TRUE, raises |-> result.raises, value |-> result.value]
             /\ env' = [env EXCEPT
                          !.embed = IF ~embedded THEN "not_called"
                                    ELSE IF embedOk THEN "ok" ELSE "empty",
                          !.search = IF ~searched THEN "not_called"
                                     ELSE IF reachable THEN "ok" ELSE "unreachable"]
             /\ IF result.raises
                THEN pc' = "raised" /\ UNCHANGED state
                ELSE /\ pc' = Edges[pc]
                     /\ state' = UpdateState(state, "context" :>
                                           Get(result.value, "context", NoneContext))
    /\ trace' = Append(trace, pc)
    /\ UNCHANGED <<host, agents>>
    /\ UNCHANGED nonPipeVars

DelayBeforeResponse ==
    /\ pc = "delay_before_response"
    /\ trace' = Append(trace, pc)
    /\ pc' = Edges[pc]
    /\ state' = UpdateState(state, <<>>)
    /\ UNCHANGED <<host, agents, env, rag>>
    /\ UNCHANGED nonPipeVars

RunResponse ==
    /\ pc = "generate_response"
    /\ \E llm \in LlmOutcomes :
         LET result_state == ResponseExecute(state, agents.response, llm)
         IN  /\ GenerateCallMade(state, agents.response) \/ llm.ok = FALSE
             /\ state' = UpdateState(state, "response" :>
                                   Get(result_state, "response", NoneResponse))
             /\ env' = [env EXCEPT !.llm =
                          IF ~GenerateCallMade(state, agents.response) THEN "not_called"
                          ELSE IF llm.ok THEN "ok" ELSE "throws"]
    /\ trace' = Append(trace, pc)
    /\ pc' = Edges[pc]
    /\ UNCHANGED <<host, agents, rag>>
    /\ UNCHANGED nonPipeVars

\* no grounding call is under way
GroundIdle ==
    /\ gpc = "input"
    /\ snippets = <<>>
    /\ rawText = <<>>
    /\ cited = [raises |-> FALSE, text |-> <<>>, sources |-> <<>>]

\* no chunk_text call is under way
ChunkIdle ==
    /\ cpc = "input"
    /\ docText = <<>>
    /\ provider = <<>>
    /\ workflow = [sentences |-> <<>>, embeddings |-> <<>>, raised |-> FALSE]
    /\ chunks = <<>>
    /\ processed = [path |-> "none", payloads |-> <<>>]

\* no upsert_documents call is under way and the server holds no collection
StoreIdle ==
    /\ store = <<>>
    /\ jobs = <<>>
    /\ acked = {}

\* no embed_documents call has been made
EmbedIdle ==
    /\ clock = 0
    /\ embedder = [request_times |-> <<>>]
    /\ issued = <<>>
    /\ embedCall = [pc |-> "idle", calls |-> 0, attempt |-> 0, requests |-> 0,
                    waits |-> <<>>, errors |-> <<>>, backoffs |-> <<>>, result |-> "none"]

\* no bulk operation is under way
BatchIdle ==
    /\ semaphore = 0
    /\ ticketTasks = <<>>
    /\ bulk = [pc |-> "idle", kind |-> "classify", model |-> FALSE, tickets |-> 0,
               results |-> <<>>]

\* no search has been made and the singleton holds no client
ClientIdle ==
    /\ client = 0
    /\ conns = <<>>
    /\ callers = <<>>
    /\ searches = <<>>
    /\ threads = FALSE

\* no ticket is being processed
TicketIdle ==
    /\ tpc = "idle"
    /\ tagents = <<>>
    /\ tstate = <<>>
    /\ ticketDb = <<>>

Init ==
    /\ pc = "new"
    /\ host \in {"unset", "placeholder", "configured"}
    /\ agents = [classification |-> FALSE, tags |-> FALSE, response |-> FALSE]
    /\ state = ("query" :> "")
    /\ trace = <<>>
    /\ env = NoEnv
    /\ rag = NoRag
    /\ GroundIdle
    /\ ChunkIdle
    /\ StoreIdle
    /\ EmbedIdle
    /\ BatchIdle
    /\ ClientIdle
    /\ TicketIdle

Next ==
    \/ Construct
    \/ Invoke
    \/ RunClassification
    \/ RunRag
    \/ DelayBeforeResponse
    \/ RunResponse

Spec == Init /\ [][Next]_vars

(***************************************************************************)
(* utils/citation_handler.py                                               *)
(*                                                                         *)
(* A response text is a sequence of tokens, one per unit the handler's     *)
(* regular expressions can match:                                          *)
(*   word        any other text                                            *)
(*   Source      the word matched by \bSource\b                            *)
(*   marker      a bracketed numeric marker [n] or [n, m]                  *)
(*   linkSource  a markdown link [Source](url)                             *)
(*   linkWord    a markdown link [doc](url)                                *)
(*   linkMarker  [[k]](url), a linkSource whose word was replaced by [k]   *)
(***************************************************************************)
Word == [type |-> "word", nums |-> <<>>, url |-> NoUrl]
SourceWord == [type |-> "Source", nums |-> <<>>, url |-> NoUrl]
Marker(ns) == [type |-> "marker", nums |-> ns, url |-> NoUrl]
Link(t, u) == [type |-> t, nums |-> <<>>, url |-> u]

HeurTokens == {Word, SourceWord, Link("linkSource", UrlA), Link("linkWord", UrlZ)}
MarkerTokens == {Marker(<<n>>) : n \in 0..MaxOrdinal} \cup {Marker(<<1, 2>>)}
Texts == SeqUpTo(HeurTokens \cup MarkerTokens, MaxMarkerLen) \cup SeqUpTo(HeurTokens, MaxHeurLen)

\* numbered_citation_pattern \[(\d+(?:,\s*\d+)*)\] matches inside the token
HasNumberedCitation(tok) == tok.type \in {"marker", "linkMarker"}
\* citation_pattern \[([^\]]+)\]\(([^)]+)\) matches the token
IsMarkdownLink(tok) == tok.type \in {"linkSource", "linkWord"}
\* source_pattern \bSource\b matches inside the token
HasSourceWord(tok) == tok.type \in {"Source", "linkSource"}

\* _parse_snippet_info keeps the URL only if it passes this test
UrlAccepted(url) ==
    /\ ~StartsWith(url, <<"http://", "localhost">>)
    /\ ~StartsWith(url, <<"http://", "127.0.0.1">>)
    /\ StartsWithHttp(url)

\* _parse_snippet_info returns the info (not None)
ParseSnippetInfoOk(block) ==
    UrlAccepted(block.url) /\ block.title # "" /\ block.content # ""

\* the CitationSource built from a parsed block (its uuid id is not kept)
CitationSourceOf(block) ==
    [title |-> block.title, url |-> block.url, source |-> block.source,
     content_snippet |-> block.content]

ExtractSourcesFromContext(context) ==
    LET kept == SelectSeq(context.blocks, ParseSnippetInfoOk)
    IN  [i \in 1..Len(kept) |-> CitationSourceOf(kept[i])]

\* the ordinals written in the markers of a text
OrdinalsIn(text) == UNION {Range(text[i].nums) : i \in 1..Len(text)}

RECURSIVE SortedSeq(_)
SortedSeq(S) ==
    IF S = {} THEN <<>>
    ELSE LET m == CHOOSE x \in S : \A y \in S : x <= y
         IN  <<m>> \o SortedSeq(S \ {m})

\* Python's sources[num - 1]: index -1 is the last element
PyIndex(sources, k) == IF k < 0 THEN sources[Len(sources) + 1 + k] ELSE sources[k + 1]

\* _map_existing_citations_to_sources: raises IndexError on [0] with no sources
MapExistingCitationsToSources(response_text, sources) ==
    LET used == SelectSeq(SortedSeq(OrdinalsIn(response_text)),
                          LAMBDA num : num <= Len(sources))
    IN  IF \E i \in 1..Len(used) : used[i] - 1 < 0 /\ Len(sources) = 0
        THEN [raises |-> TRUE, text |-> <<>>, sources |-> <<>>]
        ELSE [raises |-> FALSE, text |-> response_text,
              sources |-> [i \in 1..Len(used) |-> PyIndex(sources, used[i] - 1)]]

\* `url in source.url` for URLs made of whole segments
UrlIn(u, v) == \E i \in 1..(Len(v) + 1) : i + Len(u) - 1 <= Len(v) /\ SubSeq(v, i, i + Len(u) - 1) = u

MatchingIndexes(url, sources) ==
    {i \in 1..Len(sources) : sources[i].url = url \/ UrlIn(url, sources[i].url)}

\* the markdown-link loop of process_response_with_citations: the sources matched
\* by the links' URLs, one per distinct URL, in order of first appearance
RECURSIVE UsedFromLinks(_, _, _)
UsedFromLinks(links, sources, seen) ==
    IF links = <<>> THEN <<>>
    ELSE LET url == Head(links).url
             m == MatchingIndexes(url, sources)
         IN  IF url \notin seen /\ m # {}
             THEN <<sources[CHOOSE i \in m : \A j \in m : i <= j]>>
                  \o UsedFromLinks(Tail(links), sources, seen \cup {url})
             ELSE UsedFromLinks(Tail(links), sources, seen)

\* a UsedSources without the limit to the first 3 sources
UsedSourcesUncapped(response_text, sources) ==
    LET markdown_links == SelectSeq(response_text, IsMarkdownLink)
        source_mentions == SelectSeq(response_text, HasSourceWord)
    IN  IF source_mentions # <<>> /\ markdown_links = <<>>
        THEN sources
        ELSE UsedFromLinks(markdown_links, sources, {})

\* the sources the handler decides to use
UsedSources(response_text, sources) ==
    LET markdown_links == SelectSeq(response_text, IsMarkdownLink)
        source_mentions == SelectSeq(response_text, HasSourceWord)
    IN  IF source_mentions # <<>> /\ markdown_links = <<>>
        THEN Take(sources, SourceCap)
        ELSE UsedFromLinks(markdown_links, sources, {})

\* replace_source: the k-th match of source_pattern becomes [k] while k <= len(used_sources)
ReplaceSource(text, used_count) ==
    [i \in 1..Len(text) |->
        LET k == Cardinality({j \in 1..i : HasSourceWord(text[j])})
        IN  IF HasSourceWord(text[i]) /\ k <= used_count
            THEN IF text[i].type = "Source" THEN Marker(<<k>>)
                 ELSE [type |-> "linkMarker", nums |-> <<k>>, url |-> text[i].url]
            ELSE text[i]]

\* re.sub of "[text](url)" compiled as a regular expression: a character class
\* followed by the URL, which matches no markdown link of the text
ProcessResponseWithCitations(response_text, sources) ==
    IF sources = <<>>
    THEN [raises |-> FALSE, text |-> response_text, sources |-> <<>>]
    ELSE LET used_sources == UsedSources(response_text, sources)
         IN  [raises |-> FALSE,
              text |-> ReplaceSource(response_text, Len(used_sources)),
              sources |-> used_sources]

ExtractAndProcessCitations(response_text, context) ==
    LET sources == ExtractSourcesFromContext(context)
    IN  IF \E i \in 1..Len(response_text) : HasNumberedCitation(response_text[i])
        THEN MapExistingCitationsToSources(response_text, sources)
        ELSE ProcessResponseWithCitations(response_text, sources)

\* ground(raw_text, retrieved_snippets) on the context the RAG agent formats
Ground ==
    /\ gpc = "input"
    /\ cited' = ExtractAndProcessCitations(rawText, FormatContext(snippets))
    /\ gpc' = "grounded"
    /\ UNCHANGED <<snippets, rawText>>
    /\ UNCHANGED nonGroundVars

\* no orchestrator has been constructed
PipeIdle ==
    /\ pc = "new"
    /\ host = "configured"
    /\ agents = [classification |-> FALSE, tags |-> FALSE, response |-> FALSE]
    /\ state = ("query" :> "")
    /\ trace = <<>>
    /\ env = NoEnv
    /\ rag = NoRag

InitGround ==
    /\ PipeIdle
    /\ gpc = "input"
    /\ snippets \in SeqUpTo(Catalog, MaxSnippets)
    /\ rawText \in Texts
    /\ cited = [raises |-> FALSE, text |-> <<>>, sources |-> <<>>]
    /\ ChunkIdle
    /\ StoreIdle
    /\ EmbedIdle
    /\ BatchIdle
    /\ ClientIdle
    /\ TicketIdle

NextGround == Ground

SpecGround == InitGround /\ [][NextGround]_vars

(***************************************************************************)
(* scrapers/semantic_chunker.py                                            *)
(*                                                                         *)
(* A string is the sequence of its characters (one-character strings), so  *)
(* that len(), strip(), the sentence regex and the character splitter are  *)
(* computed.  The sizes are the ContentProcessor's configuration           *)
(* (min = chunk_size * 0.5, max = chunk_size * 1.5) scaled down.           *)
(***************************************************************************)
MinChunkSize == 4     \* self.min_chunk_size
MaxChunkSize == 12    \* self.max_chunk_size
MaxSentences == 3     \* most sentences of a document built from the catalogue
BatchSize == 10       \* batch_size of generate_embeddings
SimilarityThreshold == 7   \* self.similarity_threshold, in tenths (0.7)

\* chunk_overlap=int(self.max_chunk_size * 0.1)
ChunkOverlap == MaxChunkSize \div 10

\* the character c repeated n times
Rep(c, n) == [i \in 1..n |-> c]

Space == " "
Punctuation == {".", "!", "?"}

RECURSIVE LStrip(_)
LStrip(s) == IF s # <<>> /\ Head(s) = Space THEN LStrip(Tail(s)) ELSE s

RECURSIVE RStrip(_)
RStrip(s) ==
    IF s # <<>> /\ s[Len(s)] = Space THEN RStrip(SubSeq(s, 1, Len(s) - 1)) ELSE s

\* str.strip()
Strip(s) == LStrip(RStrip(s))

\* sep.join(parts)
RECURSIVE Join(_, _)
Join(parts, sep) ==
    IF parts = <<>> THEN <<>>
    ELSE IF Len(parts) = 1 THEN parts[1]
    ELSE parts[1] \o sep \o Join(Tail(parts), sep)

\* re.split(r'(?<=[.!?])\s+', s): cut at every whitespace run that follows a
\* punctuation character
RECURSIVE ReSplitSentences(_)
ReSplitSentences(s) ==
    LET cuts == {i \in 2..Len(s) : s[i] = Space /\ s[i - 1] \in Punctuation}
    IN  IF cuts = {} THEN <<s>>
        ELSE LET i == CHOOSE c \in cuts : \A d \in cuts : c <= d
             IN  <<SubSeq(s, 1, i - 1)>> \o ReSplitSentences(LStrip(SubSeq(s, i, Len(s))))

\* split_into_sentences: the stripped, non-empty pieces
SplitIntoSentences(t) ==
    LET pieces == ReSplitSentences(Strip(t))
        stripped == [i \in 1..Len(pieces) |-> Strip(pieces[i])]
    IN  SelectSeq(stripped, LAMBDA p : p # <<>>)

(***************************************************************************)
(* The embedding provider: for each batch it returns one vector per text,  *)
(* returns [] (GeminiEmbedder.embed_documents on any error), or raises (an *)
(* injected embedder).  A vector is the topic it points to; 0 is the zero  *)
(* vector.                                                                 *)
(***************************************************************************)
Topics == {1, 2}
ZeroVector == 0

BatchResponses(k) ==
    {[outcome |-> "vectors", vectors |-> v] : v \in [1..k -> Topics]}
    \cup {[outcome |-> "empty", vectors |-> <<>>], [outcome |-> "raises", vectors |-> <<>>]}

\* number of batches of n sentences: range(0, n, batch_size)
BatchCount(n) == (n + BatchSize - 1) \div BatchSize

\* the sentences of batch b: sentences[i:i + batch_size]
BatchOf(sentences, b) ==
    SubSeq(sentences, (b - 1) * BatchSize + 1,
           IF b * BatchSize < Len(sentences) THEN b * BatchSize ELSE Len(sentences))

\* every way the provider can answer the batches of these sentences
ProviderResponses(sentences) ==
    LET n == Len(sentences)
    IN  IF BatchCount(n) = 0 THEN {<<>>}
        ELSE IF BatchCount(n) = 1 THEN {<<r>> : r \in BatchResponses(n)}
        ELSE {<<r1, r2>> : r1 \in BatchResponses(BatchSize),
                           r2 \in BatchResponses(n - BatchSize)}

\* sklearn cosine_similarity, in tenths: 0 for a zero vector
CosineSimilarity(u, v) ==
    IF u = ZeroVector \/ v = ZeroVector THEN 0 ELSE IF u = v THEN 10 ELSE 3

\* generate_embeddings: the loop over the batches, from batch b on
RECURSIVE GenerateEmbeddings(_, _, _)
GenerateEmbeddings(sentences, prov, b) ==
    IF b > BatchCount(Len(sentences)) THEN <<>>
    ELSE LET batch == BatchOf(sentences, b)
             batch_embeddings ==
                 IF prov[b].outcome = "vectors" THEN prov[b].vectors
                 ELSE IF prov[b].outcome = "empty" THEN <<>>
                 ELSE [i \in 1..Len(batch) |-> ZeroVector]
         IN  batch_embeddings \o GenerateEmbeddings(sentences, prov, b + 1)

\* a FinalizeChunk that never merges an undersized chunk
FinalizeChunkNoMerge(acc, current_chunk_text) == Append(acc, current_chunk_text)

\* "Finalize current chunk" / "Add the last chunk": append it, or merge it into
\* the previous chunk when it is undersized and a previous chunk exists
FinalizeChunk(acc, current_chunk_text) ==
    IF Len(current_chunk_text) >= MinChunkSize THEN Append(acc, current_chunk_text)
    ELSE IF acc # <<>>
    THEN [acc EXCEPT ![Len(acc)] = @ \o <<Space>> \o current_chunk_text]
    ELSE Append(acc, current_chunk_text)

\* the for loop of find_semantic_boundaries from index i (1-based) on
RECURSIVE WalkSentences(_, _, _, _, _)
WalkSentences(sentences, embeddings, i, acc, current_chunk_text) ==
    IF i > Len(sentences) THEN FinalizeChunk(acc, current_chunk_text)
    ELSE LET current_sentence == sentences[i]
             similarity == CosineSimilarity(embeddings[i - 1], embeddings[i])
             should_split ==
                 \/ similarity < SimilarityThreshold
                 \/ Len(current_chunk_text \o <<Space>> \o current_sentence) > MaxChunkSize
         IN  IF should_split
             THEN WalkSentences(sentences, embeddings, i + 1,
                                FinalizeChunk(acc, current_chunk_text), current_sentence)
             ELSE WalkSentences(sentences, embeddings, i + 1, acc,
                                current_chunk_text \o <<Space>> \o current_sentence)

\* a FindSemanticBoundaries that takes a missing vector for a zero vector
FindSemanticBoundariesNoRaise(sentences, embeddings) ==
    IF Len(sentences) <= 1 THEN [raised |-> FALSE, chunks |-> sentences]
    ELSE [raised |-> FALSE,
          chunks |-> WalkSentences(sentences,
                                   [i \in 1..Len(sentences) |->
                                       IF i <= Len(embeddings) THEN embeddings[i]
                                       ELSE ZeroVector],
                                   2, <<>>, sentences[1])]

\* find_semantic_boundaries: state["embeddings"][i] raises IndexError when the
\* provider returned fewer vectors than there are sentences
FindSemanticBoundaries(sentences, embeddings) ==
    IF Len(sentences) <= 1 THEN [raised |-> FALSE, chunks |-> sentences]
    ELSE IF Len(embeddings) < Len(sentences) THEN [raised |-> TRUE, chunks |-> <<>>]
    ELSE [raised |-> FALSE,
          chunks |-> WalkSentences(sentences, embeddings, 2, <<>>, sentences[1])]

(***************************************************************************)
(* langchain RecursiveCharacterTextSplitter(chunk_size=max_chunk_size,     *)
(* chunk_overlap=int(max_chunk_size * 0.1)) with its defaults:             *)
(* keep_separator=True, strip_whitespace=True, length_function=len.  Of    *)
(* the default separators "\n\n", "\n", " ", "" only the last two can      *)
(* occur, the documents holding no newline.                                *)
(***************************************************************************)
NoSeparator == ""
Separators == <<Space, NoSeparator>>

\* _join_docs with separator "": the joined, stripped text (<<>> stands for None)
JoinDocs(current_doc) == Strip(Join(current_doc, <<>>))

\* the "Keep on popping" loop of _merge_splits
RECURSIVE PopOverlap(_, _, _)
PopOverlap(current_doc, total, len) ==
    IF total > ChunkOverlap \/ (total + len > MaxChunkSize /\ total > 0)
    THEN PopOverlap(Tail(current_doc), total - Len(Head(current_doc)), len)
    ELSE [doc |-> current_doc, total |-> total]

\* _merge_splits(splits, ""): the for loop from split k on
RECURSIVE MergeLoop(_, _, _, _, _)
MergeLoop(splits, k, docs, current_doc, total) ==
    IF k > Len(splits)
    THEN IF JoinDocs(current_doc) # <<>> THEN Append(docs, JoinDocs(current_doc)) ELSE docs
    ELSE LET d == splits[k]
         IN  IF total + Len(d) > MaxChunkSize
             THEN LET emitted == IF current_doc # <<>> /\ JoinDocs(current_doc) # <<>>
                                 THEN Append(docs, JoinDocs(current_doc)) ELSE docs
                      kept == IF current_doc # <<>> THEN PopOverlap(current_doc, total, Len(d))
                              ELSE [doc |-> current_doc, total |-> total]
                  IN  MergeLoop(splits, k + 1, emitted, Append(kept.doc, d),
                                kept.total + Len(d))
             ELSE MergeLoop(splits, k + 1, docs, Append(current_doc, d), total + Len(d))

MergeSplits(splits) == MergeLoop(splits, 1, <<>>, <<>>, 0)

\* a SplitWithRegex that drops the separators (keep_separator=False)
SplitWithRegexDropsSeparator(t, separator) ==
    IF separator = NoSeparator THEN [i \in 1..Len(t) |-> <<t[i]>>]
    ELSE LET ps == SortedSeq({i \in 1..Len(t) : t[i] = separator})
             first == IF ps = <<>> THEN t ELSE SubSeq(t, 1, ps[1] - 1)
             rest == [k \in 1..Len(ps) |->
                        SubSeq(t, ps[k] + 1, IF k < Len(ps) THEN ps[k + 1] - 1 ELSE Len(t))]
         IN  SelectSeq(<<first>> \o rest, LAMBDA p : p # <<>>)

\* _split_text_with_regex(text, separator, keep_separator=True): the separator
\* stays at the start of the piece that follows it; empty pieces are dropped
SplitWithRegex(t, separator) ==
    IF separator = NoSeparator THEN [i \in 1..Len(t) |-> <<t[i]>>]
    ELSE LET ps == SortedSeq({i \in 1..Len(t) : t[i] = separator})
             first == IF ps = <<>> THEN t ELSE SubSeq(t, 1, ps[1] - 1)
             rest == [k \in 1..Len(ps) |->
                        SubSeq(t, ps[k], IF k < Len(ps) THEN ps[k + 1] - 1 ELSE Len(t))]
         IN  SelectSeq(<<first>> \o rest, LAMBDA p : p # <<>>)

\* the index of the separator _split_text picks: the first one that is "" or
\* occurs in the text, else the last
PickSeparator(t, seps) ==
    LET hits == {k \in 1..Len(seps) :
                    seps[k] = NoSeparator \/ \E i \in 1..Len(t) : t[i] = seps[k]}
    IN  IF hits = {} THEN Len(seps) ELSE CHOOSE k \in hits : \A j \in hits : k <= j

RECURSIVE SplitTextRec(_, _)
RECURSIVE SplitLoop(_, _, _, _, _)

\* the loop of _split_text over the splits, from split j on
SplitLoop(splits, j, good_splits, final_chunks, new_separators) ==
    IF j > Len(splits)
    THEN IF good_splits # <<>> THEN final_chunks \o MergeSplits(good_splits)
         ELSE final_chunks
    ELSE IF Len(splits[j]) < MaxChunkSize
    THEN SplitLoop(splits, j + 1, Append(good_splits, splits[j]), final_chunks,
                   new_separators)
    ELSE LET merged == IF good_splits # <<>> THEN final_chunks \o MergeSplits(good_splits)
                       ELSE final_chunks
             other == IF new_separators = <<>> THEN <<splits[j]>>
                      ELSE SplitTextRec(splits[j], new_separators)
         IN  SplitLoop(splits, j + 1, <<>>, merged \o other, new_separators)

\* _split_text(text, separators)
SplitTextRec(t, seps) ==
    LET k == PickSeparator(t, seps)
        new_separators == IF seps[k] = NoSeparator \/ ~(\E i \in 1..Len(t) : t[i] = seps[k])
                          THEN <<>> ELSE SubSeq(seps, k + 1, Len(seps))
    IN  SplitLoop(SplitWithRegex(t, seps[k]), 1, <<>>, <<>>, new_separators)

\* splitter.split_text(text)
SplitText(t) == SplitTextRec(t, Separators)

\* _fallback_chunking
FallbackChunking(t) == IF Len(t) <= MaxChunkSize THEN <<t>> ELSE SplitText(t)

\* a RefineChunks that leaves oversized chunks as they are
RefineChunksNoSplit(chs) == chs

\* refine_chunks: oversized chunks are split, the others kept
RECURSIVE RefineChunks(_)
RefineChunks(chs) ==
    IF chs = <<>> THEN <<>>
    ELSE (IF Len(Head(chs)) > MaxChunkSize THEN SplitText(Head(chs)) ELSE <<Head(chs)>>)
         \o RefineChunks(Tail(chs))

\* the ChunkingState the workflow ends with, or where it raised
RunWorkflow(t, prov) ==
    LET sentences == SplitIntoSentences(t)
        embeddings == IF sentences = <<>> THEN <<>> ELSE GenerateEmbeddings(sentences, prov, 1)
        found == FindSemanticBoundaries(sentences, embeddings)
    IN  [sentences |-> sentences, embeddings |-> embeddings, raised |-> found.raised,
         chunks |-> IF found.raised THEN <<>> ELSE RefineChunks(found.chunks)]

\* chunk_text: [] for blank text, the workflow's chunks, or the fallback's when
\* the workflow raised
ChunkTextResult(t, prov) ==
    IF Strip(t) = <<>> THEN <<>>
    ELSE IF RunWorkflow(t, prov).raised THEN FallbackChunking(t)
    ELSE RunWorkflow(t, prov).chunks

(***************************************************************************)
(* The documents given to chunk_text: cleaned text (_clean_text) built from*)
(* the sentence catalogue, a document of more sentences than one batch,    *)
(* and blank input.                                                        *)
(***************************************************************************)
SentShort == <<"a", ".">>
SentMid == Rep("b", 2) \o <<Space>> \o Rep("c", 2) \o <<".">>
SentLongWord == Rep("d", 14) \o <<".">>
SentWords == Join(<<Rep("e", 2), Rep("f", 2), Rep("g", 2), Rep("h", 2),
                    Rep("i", 2) \o <<".">>>>, <<Space>>)
SentenceCatalog == {SentShort, SentMid, SentLongWord, SentWords}

LongDocument == Join([i \in 1..(BatchSize + 1) |-> SentShort], <<Space>>)
BlankDocuments == {<<>>, <<Space>>, <<Space, Space>>}

Documents ==
    {Join(ss, <<Space>>) : ss \in SeqUpTo(SentenceCatalog, MaxSentences)}
    \cup {LongDocument} \cup BlankDocuments

ChunkText ==
    /\ cpc = "input"
    /\ LET run == RunWorkflow(docText, provider)
       IN  workflow' = IF Strip(docText) = <<>> THEN workflow
                       ELSE [sentences |-> run.sentences, embeddings |-> run.embeddings,
                             raised |-> run.raised]
    /\ chunks' = ChunkTextResult(docText, provider)
    /\ cpc' = "chunked"
    /\ UNCHANGED <<docText, provider, processed>>
    /\ UNCHANGED nonChunkVars

\* the payloads process_documents builds from the chunks of one document
ChunkPayloads(chunk_list) ==
    [i \in 1..Len(chunk_list) |->
        [id |-> i - 1, content |-> chunk_list[i], chunk_method |-> "semantic"]]

\* re.sub(r'\s+', ' ', text): every run of whitespace becomes one space
RECURSIVE ConsolidateWhitespace(_)
ConsolidateWhitespace(t) ==
    IF Len(t) < 2 THEN t
    ELSE IF t[1] = Space /\ t[2] = Space THEN ConsolidateWhitespace(Tail(t))
    ELSE <<t[1]>> \o ConsolidateWhitespace(Tail(t))

\* _clean_text
CleanText(t) == Strip(ConsolidateWhitespace(t))

\* process_documents on one document: a document without content, or with none
\* left after cleaning, is skipped; chunk_text_sync uses the fallback splitter
\* when an event loop is running and chunk_text otherwise, which falls back
\* itself when the workflow raises
ProcessDocuments ==
    /\ cpc = "input"
    /\ \E loop_running \in BOOLEAN :
         LET clean_content == CleanText(docText)
             path == IF docText = <<>> \/ clean_content = <<>> THEN "skipped"
                     ELSE IF loop_running THEN "fallback"
                     ELSE IF RunWorkflow(clean_content, provider).raised THEN "fallback"
                     ELSE "semantic"
             chunk_list == IF path = "skipped" THEN <<>>
                           ELSE IF loop_running THEN FallbackChunking(clean_content)
                           ELSE ChunkTextResult(clean_content, provider)
         IN  processed' = [path |-> path, payloads |-> ChunkPayloads(chunk_list)]
    /\ cpc' = "processed"
    /\ UNCHANGED <<docText, provider, workflow, chunks>>
    /\ UNCHANGED nonChunkVars

InitChunk ==
    /\ PipeIdle
    /\ GroundIdle
    /\ cpc = "input"
    /\ docText \in Documents
    /\ provider \in ProviderResponses(SplitIntoSentences(docText))
    /\ workflow = [sentences |-> <<>>, embeddings |-> <<>>, raised |-> FALSE]
    /\ chunks = <<>>
    /\ processed = [path |-> "none", payloads |-> <<>>]
    /\ StoreIdle
    /\ EmbedIdle
    /\ BatchIdle
    /\ ClientIdle
    /\ TicketIdle

NextChunk ==
    \/ ChunkText
    \/ ProcessDocuments

SpecChunk == InitChunk /\ [][NextChunk]_vars

(***************************************************************************)
(* embeddings/vector_store.py and database/qdrant_client.py                *)
(*                                                                         *)
(* Several upsert_documents coroutines run against one Qdrant server (one  *)
(* event loop with asyncio tasks, or several ingestion processes).  Each   *)
(* `await` of a server call is a point where another coroutine can run;    *)
(* a server call takes effect atomically at the server.                    *)
(***************************************************************************)
MaxJobs == 2          \* concurrent upsert_documents calls
MaxDocs == 2          \* most documents given to one call
UpsertBatchSize == 100   \* batch_size of upsert_documents

Collections == {"atlan_docs", "atlan_developer"}
Jobs == 1..MaxJobs

NoCollection == [exists |-> FALSE, points |-> {}]

\* models.PointStruct(id=str(uuid.uuid4()), ..., payload original_id=doc["id"]):
\* the k-th document of call j gets an id no other point has
PointOf(j, k) == [id |-> <<j, k>>, original_id |-> k]

\* num_batches = (len(points) + batch_size - 1) // batch_size
NumBatches(n) == (n + UpsertBatchSize - 1) \div UpsertBatchSize

\* points[start_idx:end_idx] of batch b (b counts from 1)
BatchPoints(j, n, b) ==
    {PointOf(j, k) : k \in ((b - 1) * UpsertBatchSize + 1)..
                           (IF b * UpsertBatchSize < n THEN b * UpsertBatchSize ELSE n)}

\* client.recreate_collection: the collection is deleted if it exists and
\* created empty
RecreateCollection(st, name) == [st EXCEPT ![name] = [exists |-> TRUE, points |-> {}]]

\* client.upsert(collection_name, points, wait=True): a point whose id is
\* already in the collection is overwritten, any other point is added
UpsertInto(st, name, pts) ==
    [st EXCEPT ![name].points = {p \in @ : \A q \in pts : q.id # p.id} \cup pts]

\* step 3 of upsert_documents, run without suspension after the collection is
\* ensured: embed_documents gave one vector per document, or not
AfterEnsure(job, embedOk) ==
    IF embedOk THEN [job EXCEPT !.pc = "upsert", !.batch = 1]
    ELSE [job EXCEPT !.pc = "returned_false"]

\* upsert_documents up to the answer of get_collections: nothing to do without
\* documents; else the collection is found, or found missing
ListCollections(j) ==
    /\ jobs[j].pc = "called"
    /\ IF jobs[j].ndocs = 0
       THEN jobs' = [jobs EXCEPT ![j].pc = "returned_none"]
       ELSE \E up \in BOOLEAN, embedOk \in BOOLEAN :
              /\ up \/ ~embedOk
              /\ store[jobs[j].collection].exists \/ ~embedOk
              /\ jobs' = [jobs EXCEPT ![j] =
                            IF ~up THEN [@ EXCEPT !.pc = "raised"]
                            ELSE IF store[jobs[j].collection].exists
                            THEN AfterEnsure(@, embedOk)
                            ELSE [@ EXCEPT !.pc = "recreate"]]
    /\ UNCHANGED <<store, acked>>
    /\ UNCHANGED nonStoreVars

\* the collection was not in the list: await client.recreate_collection(...)
CreateCollection(j) ==
    /\ jobs[j].pc = "recreate"
    /\ \E up \in BOOLEAN, embedOk \in BOOLEAN :
         /\ up \/ ~embedOk
         /\ IF up
            THEN /\ store' = RecreateCollection(store, jobs[j].collection)
                 /\ jobs' = [jobs EXCEPT ![j] = AfterEnsure(@, embedOk)]
            ELSE /\ jobs' = [jobs EXCEPT ![j].pc = "raised"]
                 /\ UNCHANGED store
    /\ UNCHANGED acked
    /\ UNCHANGED nonStoreVars

\* await self.qdrant_client.upsert_points(collection_name, batch_points)
UpsertPoints(j) ==
    /\ jobs[j].pc = "upsert"
    /\ \E up \in BOOLEAN :
         LET name == jobs[j].collection
             pts == BatchPoints(j, jobs[j].ndocs, jobs[j].batch)
         IN  IF up /\ store[name].exists
             THEN /\ store' = UpsertInto(store, name, pts)
                  /\ acked' = acked \cup {<<name, p>> : p \in pts}
                  /\ jobs' = [jobs EXCEPT ![j] =
                                IF @.batch = NumBatches(@.ndocs)
                                THEN [@ EXCEPT !.pc = "returned_true"]
                                ELSE [@ EXCEPT !.batch = @ + 1]]
             ELSE /\ jobs' = [jobs EXCEPT ![j].pc = "raised"]
                  /\ UNCHANGED <<store, acked>>
    /\ UNCHANGED nonStoreVars

InitStore ==
    /\ PipeIdle
    /\ GroundIdle
    /\ ChunkIdle
    /\ store \in [Collections -> {NoCollection, [exists |-> TRUE, points |-> {}]}]
    /\ jobs \in [Jobs -> [pc : {"called"}, collection : Collections, ndocs : 0..MaxDocs,
                          batch : {0}]]
    /\ acked = {}
    /\ EmbedIdle
    /\ BatchIdle
    /\ ClientIdle
    /\ TicketIdle

NextStore ==
    \/ \E j \in Jobs : ListCollections(j)
    \/ \E j \in Jobs : CreateCollection(j)
    \/ \E j \in Jobs : UpsertPoints(j)

SpecStore == InitStore /\ [][NextStore]_vars

(***************************************************************************)
(* embeddings/gemini_embedder_improved.py                                  *)
(*                                                                         *)
(* One GeminiEmbedder instance used by one thread.  Time is in seconds.    *)
(* Each iteration of the retry loop of embed_documents is one step: the    *)
(* rate-limit wait, the provider request and, on an error, the backoff.    *)
(***************************************************************************)
RequestsPerMinute == 3   \* self.requests_per_minute (default 30), scaled down
MaxCalls == 3            \* embed_documents calls made on the instance
Window == 60             \* "Remove requests older than 1 minute"
MaxAttempts == 3         \* max_attempts of embed_documents
MaxRetries == 3          \* max_retries of _should_retry

\* the time that can pass between two embed_documents calls
IdleGaps == {0, 30}

\* what the provider call can raise: google.genai.errors.ServerError (5xx) and
\* ClientError (4xx, 429 included) both derive from APIError and carry .code; a
\* connection failure is no APIError and has no code
ServerError503 == [has_code |-> TRUE, code |-> 503, api_error |-> TRUE]
RateLimit429 == [has_code |-> TRUE, code |-> 429, api_error |-> TRUE]
ClientError400 == [has_code |-> TRUE, code |-> 400, api_error |-> TRUE]
ConnectionFailure == [has_code |-> FALSE, code |-> 0, api_error |-> FALSE]
ProviderErrors == {ServerError503, RateLimit429, ClientError400, ConnectionFailure}

\* genai.embed_content: a result with 'embedding', a result without, or an error
ProviderOutcomes ==
    {[kind |-> "ok", error |-> ConnectionFailure],
     [kind |-> "bad_format", error |-> ConnectionFailure]}
    \cup {[kind |-> "error", error |-> e] : e \in ProviderErrors}

\* [t for t in self.request_times if current_time - t < 60]
Prune(request_times, current_time) ==
    SelectSeq(request_times, LAMBDA t : current_time - t < Window)

\* min(self.request_times)
Oldest(request_times) ==
    CHOOSE t \in Range(request_times) : \A u \in Range(request_times) : t <= u

\* a RateLimitWait that never waits
RateLimitWaitNone(request_times, current_time) == 0

\* _wait_for_rate_limit: the seconds slept, given the pruned list
RateLimitWait(request_times, current_time) ==
    IF Len(request_times) >= RequestsPerMinute
    THEN LET wait_time == Window - (current_time - Oldest(request_times))
         IN  IF wait_time > 0 THEN wait_time ELSE 0
    ELSE 0

\* str(error.code).startswith('5') for a three-digit status code
StartsWithFive(code) == code \div 100 = 5

\* _should_retry(error, attempt)
ShouldRetry(error, attempt) ==
    IF attempt >= MaxRetries THEN FALSE
    ELSE IF error.has_code /\ error.code = 429 THEN TRUE
    ELSE IF error.has_code /\ StartsWithFive(error.code) THEN TRUE
    ELSE IF error.api_error THEN TRUE
    ELSE FALSE

\* a Backoff that grows linearly
BackoffLinear(attempt) == 2 * attempt

\* wait_time = 2 ** attempt
Backoff(attempt) == 2 ^ attempt

NoCall == [pc |-> "idle", calls |-> 0, attempt |-> 0, requests |-> 0, waits |-> <<>>,
           errors |-> <<>>, backoffs |-> <<>>, result |-> "none"]

\* embed_documents is called: [] at once for no texts, else the loop starts
EmbedDocuments ==
    /\ embedCall.pc \in {"idle", "returned"}
    /\ embedCall.calls < MaxCalls
    /\ \E gap \in IdleGaps, texts \in {"none", "some"} :
         /\ clock' = clock + gap
         /\ embedCall' = [NoCall EXCEPT
                            !.calls = embedCall.calls + 1,
                            !.pc = IF texts = "none" THEN "returned" ELSE "attempt",
                            !.result = IF texts = "none" THEN "empty" ELSE "none"]
    /\ UNCHANGED <<embedder, issued>>
    /\ UNCHANGED nonEmbedVars

\* one iteration of `for attempt in range(max_attempts)`
EmbedAttempt ==
    /\ embedCall.pc = "attempt"
    /\ \E outcome \in ProviderOutcomes :
         LET attempt == embedCall.attempt
             pruned == Prune(embedder.request_times, clock)
             wait_time == RateLimitWait(pruned, clock)
             request_time == clock + wait_time
             retry == outcome.kind = "error" /\ ShouldRetry(outcome.error, attempt)
             backoff == IF retry THEN Backoff(attempt) ELSE 0
         IN  /\ embedder' = [request_times |-> Append(pruned, request_time)]
             /\ issued' = Append(issued, request_time)
             /\ clock' = request_time + backoff
             /\ embedCall' = [embedCall EXCEPT
                    !.attempt = attempt + 1,
                    !.requests = @ + 1,
                    !.waits = Append(@, wait_time),
                    !.errors = IF outcome.kind = "error" THEN Append(@, outcome.error) ELSE @,
                    !.backoffs = IF outcome.kind = "error" THEN Append(@, backoff) ELSE @,
                    !.pc = IF retry /\ attempt + 1 < MaxAttempts THEN "attempt"
                           ELSE "returned",
                    !.result = IF outcome.kind = "ok" THEN "vectors"
                               ELSE IF retry /\ attempt + 1 < MaxAttempts THEN "none"
                               ELSE "empty"]
    /\ UNCHANGED nonEmbedVars

InitEmbed ==
    /\ PipeIdle
    /\ GroundIdle
    /\ ChunkIdle
    /\ StoreIdle
    /\ clock = 0
    /\ embedder = [request_times |-> <<>>]
    /\ issued = <<>>
    /\ embedCall = NoCall
    /\ BatchIdle
    /\ ClientIdle
    /\ TicketIdle

NextEmbed ==
    \/ EmbedDocuments
    \/ EmbedAttempt

SpecEmbed == InitEmbed /\ [][NextEmbed]_vars

(***************************************************************************)
(* agents/classification_agent.py: classify_ticket_batch                   *)
(* agents/resolution_agent.py:     resolve_tickets_batch                   *)
(*                                                                         *)
(* One bulk call at a time.  Each per-ticket coroutine is a task that      *)
(* waits for the semaphore, runs execute() and releases the semaphore; the *)
(* event loop may interleave the tasks in any order.                       *)
(***************************************************************************)
MaxTickets == 7          \* tickets handed to one bulk call
SemaphoreLimit == 5      \* asyncio.Semaphore(5)

BatchKinds == {"classify", "resolve"}

\* an acquire that never blocks
CanAcquireAlways(value) == TRUE

\* asyncio.Semaphore.acquire goes through only with a permit left
CanAcquire(value) == value > 0

\* a task that has not returned yet
NoReturn == [is_tuple |-> FALSE, index |-> 0, result |-> "none"]

\* a per-ticket coroutine whose exception is not handled: gather() gets the
\* exception object instead of a tuple
TaskReturnUnhandled(index, outcome) ==
    IF outcome = "error" THEN [is_tuple |-> FALSE, index |-> index, result |-> "exception"]
    ELSE [is_tuple |-> TRUE, index |-> index, result |-> outcome]

\* what the per-ticket coroutine returns: `return index, result` from the try
\* block, `return index, {... error ...}` from the except block
TaskReturn(index, outcome) == [is_tuple |-> TRUE, index |-> index, result |-> outcome]

\* gather() lists what the tasks returned in task order; the tuples among them
\* are sorted by index and their results extracted
SortedResults(tasks) ==
    LET completed_tasks == [i \in 1..Len(tasks) |-> tasks[i].returned]
        tuples == SelectSeq(completed_tasks, LAMBDA task : task.is_tuple)
        order == SortedSeq({tuples[k].index : k \in 1..Len(tuples)})
    IN  [k \in 1..Len(order) |->
            (CHOOSE t \in Range(tuples) : t.index = order[k]).result]

\* the bulk method is called: [] with no model (classification only) or no
\* tickets, else the semaphore and one task per ticket are created
BatchCall ==
    /\ bulk.pc \in {"idle", "returned"}
    /\ \E kind \in BatchKinds, model \in BOOLEAN, n \in 0..MaxTickets :
         IF (kind = "classify" /\ ~model) \/ n = 0
         THEN /\ bulk' = [pc |-> "returned", kind |-> kind, model |-> model,
                           tickets |-> n, results |-> <<>>]
              /\ ticketTasks' = <<>>
              /\ semaphore' = 0
         ELSE /\ bulk' = [pc |-> "gather", kind |-> kind, model |-> model,
                           tickets |-> n, results |-> <<>>]
              /\ ticketTasks' = [i \in 1..n |-> [pc |-> "waiting", result |-> "none",
                                                 returned |-> NoReturn]]
              /\ semaphore' = SemaphoreLimit
    /\ UNCHANGED nonBatchVars

\* `async with semaphore`: task i enters
Acquire(i) ==
    /\ bulk.pc = "gather"
    /\ ticketTasks[i].pc = "waiting"
    /\ CanAcquire(semaphore)
    /\ semaphore' = semaphore - 1
    /\ ticketTasks' = [ticketTasks EXCEPT ![i].pc = "running"]
    /\ UNCHANGED bulk
    /\ UNCHANGED nonBatchVars

\* execute() returns or raises; the task leaves `async with` with its tuple
Finish(i) ==
    /\ bulk.pc = "gather"
    /\ ticketTasks[i].pc = "running"
    /\ \E outcome \in {"result", "error"} :
         ticketTasks' = [ticketTasks EXCEPT ![i] = [pc |-> "done", result |-> outcome,
                                                   returned |-> TaskReturn(i - 1, outcome)]]
    /\ semaphore' = semaphore + 1
    /\ UNCHANGED bulk
    /\ UNCHANGED nonBatchVars

\* gather() completes; the tuples are sorted by index and returned
Gather ==
    /\ bulk.pc = "gather"
    /\ \A i \in DOMAIN ticketTasks : ticketTasks[i].pc = "done"
    /\ bulk' = [bulk EXCEPT !.pc = "returned", !.results = SortedResults(ticketTasks)]
    /\ UNCHANGED <<semaphore, ticketTasks>>
    /\ UNCHANGED nonBatchVars

InitBatch ==
    /\ PipeIdle
    /\ GroundIdle
    /\ ChunkIdle
    /\ StoreIdle
    /\ EmbedIdle
    /\ semaphore = 0
    /\ ticketTasks = <<>>
    /\ bulk = [pc |-> "idle", kind |-> "classify", model |-> FALSE, tickets |-> 0,
               results |-> <<>>]
    /\ ClientIdle
    /\ TicketIdle

NextBatch ==
    \/ BatchCall
    \/ \E i \in DOMAIN ticketTasks : Acquire(i)
    \/ \E i \in DOMAIN ticketTasks : Finish(i)
    \/ Gather

SpecBatch == InitBatch /\ [][NextBatch]_vars

(***************************************************************************)
(* database/qdrant_client.py: _get_client, search, close                   *)
(* src/embeddings/similarity_search.py: SimilaritySearch.search            *)
(*                                                                         *)
(* QdrantDBClient is a process-wide singleton; `client` is its _client     *)
(* attribute (0 for None, else the number of a connection) and conns the   *)
(* AsyncQdrantClient objects created so far.  Callers are tasks of one     *)
(* event loop, which can be switched only at an await, or threads, which   *)
(* can be switched between any two statements.                             *)
(***************************************************************************)
MaxCallers == 2         \* concurrent callers of SimilaritySearch.search
MaxSearches == 3        \* searches made by all callers together

Callers == 1..MaxCallers

NoClient == 0

IdleCaller == [pc |-> "idle", n |-> 0, probe |-> NoClient, conn |-> NoClient,
               result |-> "none"]

RECURSIVE SumN(_)
SumN(S) == IF S = {} THEN 0
           ELSE LET c == CHOOSE x \in S : TRUE IN callers[c].n + SumN(S \ {c})

\* the searches started so far
SearchesStarted == SumN(DOMAIN callers)

\* AsyncQdrantClient(...): a new open connection
NewConnection == [state |-> "open", alive |-> TRUE, found_dead |-> FALSE]

\* get_collections / search on connection k go through
ConnectionUsable(k) == k # NoClient /\ conns[k].state = "open" /\ conns[k].alive

\* `if self._client: await self._client.close()` then `self._client = None`,
\* applied to the connection list cs
CloseShared(cs) ==
    IF client = NoClient THEN cs
    ELSE [cs EXCEPT ![client].state = "closed"]

\* _get_client returns self._client and the caller issues client.search on it;
\* on None the call raises at once, the except blocks clean up and [] comes back
ReturnClientAndSearch(c) ==
    IF client = NoClient
    THEN /\ callers' = [callers EXCEPT ![c].pc = "done", ![c].result = "empty",
                                       ![c].conn = NoClient]
         /\ UNCHANGED <<client, conns, searches>>
    ELSE /\ callers' = [callers EXCEPT ![c].pc = "searching", ![c].conn = client]
         /\ searches' = Append(searches, client)
         /\ UNCHANGED <<client, conns>>

\* SimilaritySearch.search is called; _get_client tests `if self._client:`.  A
\* task that finds None creates the client in the same step (no await lies
\* between the test and the assignment); a thread can be switched there.
CallSearch(c) ==
    /\ callers[c].pc \in {"idle", "done"}
    /\ SearchesStarted < MaxSearches
    /\ IF client # NoClient
       THEN /\ callers' = [callers EXCEPT ![c].pc = "health", ![c].n = @ + 1,
                                          ![c].probe = client, ![c].conn = NoClient,
                                          ![c].result = "none"]
            /\ UNCHANGED <<client, conns>>
       ELSE IF threads
       THEN /\ callers' = [callers EXCEPT ![c].pc = "create", ![c].n = @ + 1,
                                          ![c].probe = NoClient, ![c].conn = NoClient,
                                          ![c].result = "none"]
            /\ UNCHANGED <<client, conns>>
       ELSE /\ conns' = Append(conns, NewConnection)
            /\ client' = Len(conns) + 1
            /\ callers' = [callers EXCEPT ![c].pc = "validate", ![c].n = @ + 1,
                                          ![c].probe = Len(conns) + 1,
                                          ![c].conn = NoClient, ![c].result = "none"]
    /\ UNCHANGED <<searches, threads>>
    /\ UNCHANGED nonClientVars

\* `self._client = AsyncQdrantClient(...)` by a thread that saw None
CreateClient(c) ==
    /\ callers[c].pc = "create"
    /\ conns' = Append(conns, NewConnection)
    /\ client' = Len(conns) + 1
    /\ callers' = [callers EXCEPT ![c].pc = "validate", ![c].probe = Len(conns) + 1]
    /\ UNCHANGED <<searches, threads>>
    /\ UNCHANGED nonClientVars

\* the health check of the existing client completes: healthy, it is returned;
\* else it is closed, a new client is created and its validation awaited
HealthCheck(c) ==
    /\ callers[c].pc = "health"
    /\ IF ConnectionUsable(callers[c].probe)
       THEN ReturnClientAndSearch(c)
       ELSE /\ conns' = Append([CloseShared(conns) EXCEPT
                                   ![callers[c].probe].found_dead = TRUE],
                               NewConnection)
            /\ client' = Len(conns) + 1
            /\ callers' = [callers EXCEPT ![c].pc = "validate",
                                          ![c].probe = Len(conns) + 1]
            /\ UNCHANGED searches
    /\ UNCHANGED threads
    /\ UNCHANGED nonClientVars

\* the validation of the new client completes: it is returned, or the failed
\* client is closed and the error reaches SimilaritySearch.search, which returns []
ValidateClient(c) ==
    /\ callers[c].pc = "validate"
    /\ IF ConnectionUsable(callers[c].probe)
       THEN ReturnClientAndSearch(c)
       ELSE /\ conns' = CloseShared(conns)
            /\ client' = NoClient
            /\ callers' = [callers EXCEPT ![c].pc = "done", ![c].result = "empty"]
            /\ UNCHANGED searches
    /\ UNCHANGED threads
    /\ UNCHANGED nonClientVars

\* client.search completes with hits or with an error; either way the shared
\* client ends up closed: by the except block of QdrantDBClient.search on an
\* error, by the finally block of SimilaritySearch.search on success
SearchReturns(c) ==
    /\ callers[c].pc = "searching"
    /\ conns' = CloseShared(conns)
    /\ client' = NoClient
    /\ callers' = [callers EXCEPT ![c].pc = "done",
                                  ![c].result = IF ConnectionUsable(callers[c].conn) THEN "hits"
                                                ELSE "empty"]
    /\ UNCHANGED <<searches, threads>>
    /\ UNCHANGED nonClientVars

\* the server or the network drops an open connection
ConnectionDies(k) ==
    /\ conns[k].state = "open"
    /\ conns[k].alive
    /\ conns' = [conns EXCEPT ![k].alive = FALSE]
    /\ UNCHANGED <<client, callers, searches, threads>>
    /\ UNCHANGED nonClientVars

InitClient ==
    /\ PipeIdle
    /\ GroundIdle
    /\ ChunkIdle
    /\ StoreIdle
    /\ EmbedIdle
    /\ BatchIdle
    /\ client = NoClient
    /\ conns = <<>>
    /\ callers = [c \in Callers |-> IdleCaller]
    /\ searches = <<>>
    /\ threads \in BOOLEAN
    /\ TicketIdle

NextClient ==
    \/ \E c \in Callers : CallSearch(c)
    \/ \E c \in Callers : CreateClient(c)
    \/ \E c \in Callers : HealthCheck(c)
    \/ \E c \in Callers : ValidateClient(c)
    \/ \E c \in Callers : SearchReturns(c)
    \/ \E k \in DOMAIN conns : ConnectionDies(k)

SpecClient == InitClient /\ [][NextClient]_vars

(***************************************************************************)
(* agents/ticket_orchestrator.py and agents/resolution_agent.py            *)
(*                                                                         *)
(* One ticket goes through TicketOrchestrator (classify_ticket, then       *)
(* resolve_ticket) or straight into ResolutionAgent.execute, as the bulk   *)
(* resolution does.                                                        *)
(***************************************************************************)
RagEligibleTopics == {"How-to"}
RoutedTopics == {"Connector"}
TicketTopics == RagEligibleTopics \cup RoutedTopics

\* the classification dict of a ticket: absent, {} or the classifier's data
NoTicketClassification ==
    [kind |-> "absent", topic_tags |-> <<>>, sentiment |-> "", priority |-> ""]
EmptyClassification ==
    [kind |-> "empty", topic_tags |-> <<>>, sentiment |-> "", priority |-> ""]
TicketClassification(topic) ==
    [kind |-> "dict", topic_tags |-> <<topic>>, sentiment |-> "Neutral", priority |-> "P1"]

NoResolution == [status |-> "none", message |-> ""]

\* the tickets read from the store: unprocessed ones with or without subject
\* and body, and ones a previous run processed
RawTickets ==
    {[content |-> c, processed |-> FALSE, classification |-> NoTicketClassification] :
        c \in BOOLEAN}
    \cup {[content |-> TRUE, processed |-> TRUE, classification |-> TicketClassification(t)] :
            t \in TicketTopics}

\* result_state.get("classification", {}) of ClassificationAgent.execute on the
\* ticket's subject and body
ClassificationOf(ticket, outcome, topic) ==
    LET input == [subject |-> IF ticket.content THEN "s" ELSE "",
                  body |-> IF ticket.content THEN "b" ELSE ""]
        result_state == ClassificationExecute(input, tagents.classification, tagents.tags,
                                              outcome)
    IN  IF "classification" \in DOMAIN result_state THEN TicketClassification(topic)
        ELSE EmptyClassification

\* TicketOrchestrator._run_classification
RunTicketClassification ==
    /\ tpc = "classify_ticket"
    /\ \E outcome \in ClassifyOutcomes, topic \in TicketTopics :
         LET ticket == tstate.ticket
             classification == ClassificationOf(ticket, outcome, topic)
             updated_ticket == [ticket EXCEPT !.classification = classification,
                                              !.processed = TRUE]
         IN  tstate' = [tstate EXCEPT !.classification = classification.kind = "dict",
                                      !.ticket = updated_ticket]
    /\ tpc' = "resolve_ticket"
    /\ UNCHANGED <<tagents, ticketDb>>
    /\ UNCHANGED nonTicketVars

\* _process_ticket: the ticket with the classifier's result and processed = True,
\* written to the store; the original ticket if the store raises
ProcessTicket(ticket, outcome, topic, mongoOk) ==
    LET processed_ticket ==
            [ticket EXCEPT !.processed = TRUE,
                           !.classification = ClassificationOf(ticket, outcome, topic)]
    IN  IF mongoOk THEN [ticket |-> processed_ticket, stored |-> TRUE]
        ELSE [ticket |-> ticket, stored |-> FALSE]

\* _determine_primary_topic
DeterminePrimaryTopic(topic_tags) ==
    IF topic_tags = <<>> THEN "General"
    ELSE IF \E i \in 1..Len(topic_tags) : topic_tags[i] \in RagEligibleTopics
    THEN topic_tags[CHOOSE i \in 1..Len(topic_tags) :
                       /\ topic_tags[i] \in RagEligibleTopics
                       /\ \A j \in 1..(i - 1) : topic_tags[j] \notin RagEligibleTopics]
    ELSE topic_tags[1]

\* _resolve_with_rag: the answer, or the error dict when the RAG call raises
ResolveWithRag(ragOk) ==
    IF ragOk THEN [status |-> "resolved", message |-> ""]
    ELSE [status |-> "error", message |-> "RAG resolution failed"]

\* _route_to_team
RouteToTeam(topic) == [status |-> "routed", message |-> topic]

\* ResolutionAgent.execute
ResolveTicket ==
    /\ tpc = "resolve_ticket"
    /\ \E outcome \in ClassifyOutcomes, topic \in TicketTopics,
          mongoOk \in BOOLEAN, ragOk \in BOOLEAN, storeOk \in BOOLEAN :
         LET given == tstate.ticket
             done == IF given.processed THEN [ticket |-> given, stored |-> FALSE]
                     ELSE ProcessTicket(given, outcome, topic, mongoOk)
             ticket == done.ticket
             primary == DeterminePrimaryTopic(ticket.classification.topic_tags)
             resolution_data == IF primary \in RagEligibleTopics THEN ResolveWithRag(ragOk)
                                ELSE RouteToTeam(primary)
             afterProcess == IF done.stored
                             THEN [ticketDb EXCEPT !.processed = TRUE,
                                                   !.classification = ticket.classification]
                             ELSE ticketDb
         IN  IF ~ticket.processed
             THEN /\ tstate' = [tstate EXCEPT
                                  !.resolution = [status |-> "error",
                                                  message |-> "Failed to process ticket"]]
                  /\ ticketDb' = afterProcess
             ELSE /\ tstate' = [tstate EXCEPT !.ticket = ticket,
                                              !.resolution = resolution_data,
                                              !.resolution_status = "completed"]
                  /\ ticketDb' = IF storeOk
                                 THEN [afterProcess EXCEPT !.resolution = resolution_data]
                                 ELSE afterProcess
    /\ tpc' = "END"
    /\ UNCHANGED tagents
    /\ UNCHANGED nonTicketVars

InitTicket ==
    /\ PipeIdle
    /\ GroundIdle
    /\ ChunkIdle
    /\ StoreIdle
    /\ EmbedIdle
    /\ BatchIdle
    /\ ClientIdle
    /\ tpc \in {"classify_ticket", "resolve_ticket"}
    /\ tagents \in [classification : BOOLEAN, tags : BOOLEAN]
    /\ \E ticket \in RawTickets :
         /\ tstate = [ticket |-> ticket, classification |-> FALSE,
                      resolution |-> NoResolution, resolution_status |-> "pending"]
         /\ ticketDb = [processed |-> ticket.processed,
                        classification |-> ticket.classification,
                        resolution |-> NoResolution]

NextTicket ==
    \/ RunTicketClassification
    \/ ResolveTicket

SpecTicket == InitTicket /\ [][NextTicket]_vars

(***************************************************************************)
(* Claims about the orchestrator (checked under Spec)                      *)
(***************************************************************************)
\* invoke has returned or raised
Finished == pc \in {"END", "raised"}

\* a context that says no knowledge is available and carries no snippet
IsSentinelContext(c) ==
    c.kind \in {"error_embedding", "no_relevant_documents"} /\ c.blocks = <<>>

\* C1: RAGAgent.execute never raises, and whenever the embedding provider returns [],
\* or the vector store is unreachable or unconfigured, it returns a state whose
\* context is the sentinel and whose citation list is empty.
C1_RetrieveNeverRaises ==
    rag.called =>
        /\ ~rag.raises
        /\ (env.embed = "empty" \/ env.search = "unreachable"
              \/ (env.embed = "ok" /\ HostUnconfigured(host)))
           => /\ IsSentinelContext(rag.value["context"])
              /\ Get(rag.value, "citations", <<>>) = <<>>

\* the stage sequence the specification gives for answer(query)
ClaimedStages ==
    <<"classify", "retrieve_context", "delay_before_response", "generate_response", "ground">>

\* the nodes of the compiled graph, in edge order
GraphStages ==
    <<"classify", "retrieve_context", "delay_before_response", "generate_response">>

\* C2: every invocation of Orchestrator.invoke passes through Classify, Retrieve,
\* Throttle, Generate, Ground in exactly that order, each exactly once, and then
\* reaches Done.
C2_FiveStagesThenDone ==
    Finished => (pc = "END" /\ trace = ClaimedStages)

\* C3: the result returned by invoke always contains classification, context,
\* citations and the answer (the `response` key), and its citations are the citation
\* list the Retrieve stage produced for that query.
C3_ResultHasFourFields ==
    pc = "END" =>
        /\ {"classification", "context", "citations", "response"} \subseteq DOMAIN state
        /\ rag.called
        /\ state["citations"] = Get(rag.value, "citations", <<>>)

\* C4: if Classify fails (the provider call throws or the reply is malformed JSON),
\* invoke still runs Retrieve, Throttle and Generate and returns their results with
\* classification unset, and raises nothing.
C4_ClassifyFailureIsolated ==
    (Finished /\ env.classify \in {"throws", "malformed_json"}) =>
        /\ pc = "END"
        /\ trace = GraphStages
        /\ state["classification"] = NoneClassification
        /\ {"context", "response"} \subseteq DOMAIN state

\* C5: if the language-model call of ResponseAgent.execute fails, the answer is the
\* fixed apology string, whatever the query and the context, and the invocation
\* returns instead of raising.
C5_GenerateFailureGivesApology ==
    (env.llm = "throws") => (pc = "END" /\ state["response"] = Apology)

\* C5 witness: an invocation whose language-model call failed has returned, on a
\* context that carries retrieved snippets
C5_Witness ==
    /\ pc = "END"
    /\ env.llm = "throws"
    /\ state["context"].kind = "snippets"
    /\ state["response"] = Apology

(***************************************************************************)
(* Claims about grounding (checked under SpecGround)                       *)
(***************************************************************************)
\* ground returned a GroundedAnswer
Grounded == gpc = "grounded" /\ ~cited.raises

\* the raw text already contains bracketed numeric markers
HasMarkers(text) == \E i \in 1..Len(text) : text[i].type = "marker"

\* the source shows this retrieved snippet
SameSnippet(src, doc) == src.title = doc.title /\ src.content_snippet = doc.content

\* the ordinals of the raw text that name a retrieved snippet
ReferencedOrdinals == OrdinalsIn(rawText) \cap (1..Len(snippets))

\* C6: in every GroundedAnswer the number of distinct ordinals in the text equals
\* the number of sources, and the ordinals are exactly 1..len(sources).
C6_OrdinalsAreDenseRange ==
    Grounded =>
        /\ Cardinality(OrdinalsIn(cited.text)) = Len(cited.sources)
        /\ OrdinalsIn(cited.text) = 1..Len(cited.sources)

\* C7: when the raw text has numeric markers, each referenced ordinal n stands for
\* the n-th retrieved snippet, and the source list holds exactly the referenced
\* snippets and no others.
C7_OrdinalMapsToNthSnippet ==
    (Grounded /\ HasMarkers(rawText)) =>
        {<<cited.sources[i].title, cited.sources[i].content_snippet>> :
            i \in 1..Len(cited.sources)}
        = {<<snippets[n].title, snippets[n].content>> : n \in ReferencedOrdinals}

\* C8: the source list of a GroundedAnswer holds each distinct URL and each distinct
\* snippet at most once, also when two cited snippets share a URL.
C8_SourcesAreDeduplicated ==
    Grounded =>
        \A i, j \in 1..Len(cited.sources) :
            i # j => /\ cited.sources[i].url # cited.sources[j].url
                     /\ cited.sources[i] # cited.sources[j]

\* C9: a cited snippet whose URL host is loopback/local is still listed as a source,
\* title and content preserved and url blanked; no source carries a loopback URL.
C9_LoopbackSourceBlanked ==
    Grounded =>
        /\ \A n \in ReferencedOrdinals :
              IsLoopbackHost(snippets[n].url) =>
                  \E i \in 1..Len(cited.sources) :
                      /\ SameSnippet(cited.sources[i], snippets[n])
                      /\ cited.sources[i].url = NoUrl
        /\ \A i \in 1..Len(cited.sources) : ~IsLoopbackHost(cited.sources[i].url)

\* the k of the k-th generic reference word, for the word at position i
Occurrence(text, i) ==
    Cardinality({j \in 1..i : text[j].type \in {"Source", "linkSource"}})

\* out is raw with the k-th generic reference word turned into [k] for k <= cap,
\* and everything else left as it was
HeuristicallyMarked(raw, out, cap) ==
    /\ Len(out) = Len(raw)
    /\ \A i \in 1..Len(raw) :
          IF raw[i].type \in {"Source", "linkSource"} /\ Occurrence(raw, i) <= cap
          THEN /\ out[i].nums = <<Occurrence(raw, i)>>
               /\ out[i].type = (IF raw[i].type = "Source" THEN "marker" ELSE "linkMarker")
               /\ out[i].url = raw[i].url
          ELSE out[i] = raw[i]

Usable(doc) ==
    /\ Len(doc.url) >= 2
    /\ doc.url[1] \in {"http://", "https://"}
    /\ ~(doc.url[1] = "http://" /\ doc.url[2] \in {"localhost", "127.0.0.1"})
    /\ doc.title # ""
    /\ doc.content # ""

UsableCount == Cardinality({i \in 1..Len(snippets) : Usable(snippets[i])})

Min(a, b) == IF a <= b THEN a ELSE b

Chunked == cpc = "chunked"

\* the document is empty or whitespace only
IsBlank(t) == Strip(t) = <<>>

\* the chunks find_semantic_boundaries handed to refine_chunks
BoundaryChunks == FindSemanticBoundaries(workflow.sentences, workflow.embeddings).chunks

\* some returned chunk was produced by the fixed-size overlap splitter
HardSplit ==
    \/ workflow.raised /\ Len(docText) > MaxChunkSize
    \/ ~workflow.raised /\ \E i \in 1..Len(BoundaryChunks) : Len(BoundaryChunks[i]) > MaxChunkSize

\* C11: every chunk chunk_text returns for a document, except possibly the last
\* one, has length <= max_chunk_size, for every document and every embedding
\* response.
C11_AllButLastWithinMax ==
    Chunked => \A i \in 1..(Len(chunks) - 1) : Len(chunks[i]) <= MaxChunkSize

\* C11 witness: boundary finding merged an undersized chunk into an oversized one
\* and a sentence is longer than max_chunk_size; every returned chunk is within
\* the maximum
C11_Witness ==
    /\ Chunked
    /\ ~workflow.raised
    /\ \E i \in 1..Len(workflow.sentences) : Len(workflow.sentences[i]) > MaxChunkSize
    /\ \E i \in 1..Len(BoundaryChunks) :
          /\ Len(BoundaryChunks[i]) > MaxChunkSize
          /\ \E j \in 1..Len(workflow.sentences) :
                Len(workflow.sentences[j]) < MinChunkSize
                /\ Len(BoundaryChunks[i]) > Len(workflow.sentences[j])
                /\ SubSeq(BoundaryChunks[i],
                          Len(BoundaryChunks[i]) - Len(workflow.sentences[j]) + 1,
                          Len(BoundaryChunks[i])) = workflow.sentences[j]
    /\ Len(chunks) >= 3
    /\ \A i \in 1..Len(chunks) : Len(chunks[i]) <= MaxChunkSize

\* C12: every chunk chunk_text returns for a document, except possibly the final
\* one, has length >= min_chunk_size (the first chunk and hard-split pieces
\* included).
C12_AllButLastAtLeastMin ==
    Chunked => \A i \in 1..(Len(chunks) - 1) : Len(chunks[i]) >= MinChunkSize

\* s occurs in t as a contiguous run of characters
Contains(t, s) == \E p \in 1..(Len(t) - Len(s) + 1) : SubSeq(t, p, p + Len(s) - 1) = s

\* the sentences from the i-th on appear whole in the chunks from the k-th on, in
\* sentence order
RECURSIVE SentencesInOrder(_, _, _)
SentencesInOrder(sents, i, k) ==
    IF i > Len(sents) THEN TRUE
    ELSE LET ks == {j \in k..Len(chunks) : Contains(chunks[j], sents[i])}
         IN  ks # {} /\ SentencesInOrder(sents, i + 1, CHOOSE j \in ks : \A l \in ks : j <= l)

\* C13 as stated: every sentence of the cleaned text appears in some chunk and the
\* chunks keep the original sentence order.
C13_EverySentenceInSomeChunk ==
    (Chunked /\ ~IsBlank(docText)) => SentencesInOrder(SplitIntoSentences(docText), 1, 1)

\* the chunks from the k-th on are spans of the text that start at or after
\* prevStart, leave nothing but a single space uncovered after coveredEnd, and
\* reach the end of the text
RECURSIVE SpansCover(_, _, _)
SpansCover(k, prevStart, coveredEnd) ==
    IF k > Len(chunks) THEN coveredEnd = Len(docText)
    ELSE \E p \in prevStart..(coveredEnd + 2) :
            /\ p + Len(chunks[k]) - 1 <= Len(docText)
            /\ SubSeq(docText, p, p + Len(chunks[k]) - 1) = chunks[k]
            /\ (p = coveredEnd + 2) => docText[coveredEnd + 1] = Space
            /\ SpansCover(k + 1, p,
                          IF p + Len(chunks[k]) - 1 > coveredEnd
                          THEN p + Len(chunks[k]) - 1 ELSE coveredEnd)

\* C13 amended: the chunks are spans of the cleaned text in increasing position
\* that together leave out nothing but single spaces between chunks; every
\* sentence is whole inside one chunk, in order, unless a chunk was hard-split.
C13_ChunksCoverTextInOrder ==
    (Chunked /\ ~IsBlank(docText)) =>
        /\ SpansCover(1, 1, 0)
        /\ ~HardSplit => SentencesInOrder(SplitIntoSentences(docText), 1, 1)

\* C13 witness: a document whose oversized chunk was hard-split into pieces that
\* overlap, after an undersized first chunk was kept
C13_Witness ==
    /\ Chunked
    /\ ~workflow.raised
    /\ HardSplit
    /\ Len(chunks) >= 3
    /\ Len(chunks[1]) + 1 + Len(chunks[2]) + 1 + Len(chunks[3]) > Len(docText)

EmbeddingFailedEntirely ==
    provider # <<>> /\ \A b \in 1..Len(provider) : provider[b].outcome \in {"empty", "raises"}

\* the embedding call gave no vectors for every sentence batch
EmbeddingGaveNoVectors ==
    provider # <<>> /\ \A b \in 1..Len(provider) : provider[b].outcome = "empty"

PastEnsure(job) == job.pc \in {"upsert", "returned_false", "returned_true"}

\* C16: create_collection_if_not_exists is idempotent and safe under concurrent
\* first use: after any interleaving of calls with identical arguments, point
\* upserts between them included, the collection exists and no point already
\* upserted into it is lost.
C16_CreateIsIdempotentAndSafe ==
    /\ \A j \in DOMAIN jobs : PastEnsure(jobs[j]) => store[jobs[j].collection].exists
    /\ \A a \in acked : store[a[1]].exists /\ a[2] \in store[a[1]].points

(***************************************************************************)
(* Claims about the embedding client (checked under SpecEmbed)             *)
(***************************************************************************)
\* the number of provider requests in the 60-second window that ends with the
\* i-th request
RequestsInWindow(i) ==
    Cardinality({j \in 1..i : issued[j] > issued[i] - Window})

\* C17: the embedding client issues at most requests_per_minute provider requests
\* in any rolling 60-second window, retries included; an attempt that would exceed
\* the budget waits and then makes its request, it does not fail.
C17_RollingWindowBudget ==
    /\ \A i \in 1..Len(issued) : RequestsInWindow(i) <= RequestsPerMinute
    /\ embedCall.requests = embedCall.attempt
    /\ Len(embedCall.waits) = embedCall.requests

\* C17 witness: an attempt found the budget used up, waited, and made its request
\* when the oldest request left the window
C17_Witness ==
    /\ Len(issued) > RequestsPerMinute
    /\ embedCall.waits # <<>>
    /\ embedCall.waits[Len(embedCall.waits)] > 0
    /\ RequestsInWindow(Len(issued)) = RequestsPerMinute

\* an error the specification calls transient: 5xx or 429
Transient(e) == e.has_code /\ (e.code = 429 \/ e.code \div 100 = 5)

\* every attempt made so far by the call failed with a transient error
OnlyTransientErrors ==
    /\ embedCall.attempt >= 1
    /\ Len(embedCall.errors) = embedCall.attempt
    /\ \A k \in 1..Len(embedCall.errors) : Transient(embedCall.errors[k])

\* C18: on transient errors one embed call makes at most 3 attempts in total, waits
\* 2^attempt seconds between one attempt and the next, and returns [] once its
\* attempts are exhausted.
C18_TransientRetriedThreeTimes ==
    OnlyTransientErrors =>
        /\ embedCall.attempt <= 3
        /\ \A k \in 1..(embedCall.attempt - 1) : embedCall.backoffs[k] = 2 ^ (k - 1)
        /\ embedCall.pc = "returned" => (embedCall.attempt = 3 /\ embedCall.result = "empty")
        /\ embedCall.pc = "attempt" => embedCall.attempt < 3

\* C18 witness: a call whose three attempts all failed with transient errors has
\* returned the empty result
C18_Witness ==
    /\ embedCall.pc = "returned"
    /\ OnlyTransientErrors
    /\ embedCall.attempt = 3
    /\ SubSeq(embedCall.backoffs, 1, 2) = <<1, 2>>
    /\ embedCall.result = "empty"

\* C19: a non-transient error on an attempt (not 5xx, 429 or provider-transient,
\* such as a 4xx client error) aborts at once: no further attempt, no backoff
\* wait, and embed returns [].
C19_NonTransientAbortsAtOnce ==
    \A k \in 1..Len(embedCall.errors) :
        ~Transient(embedCall.errors[k]) =>
            /\ k = Len(embedCall.errors)
            /\ embedCall.attempt = k
            /\ embedCall.backoffs[k] = 0
            /\ embedCall.pc = "returned"
            /\ embedCall.result = "empty"

(***************************************************************************)
(* Claims about the bulk operations (checked under SpecBatch)              *)
(***************************************************************************)
\* the tickets whose execute() is in progress
Processing == {i \in DOMAIN ticketTasks : ticketTasks[i].pc = "running"}

\* C20: during classify_ticket_batch or resolve_tickets_batch at most 5 tickets
\* are being processed at any time, whatever the number of tickets and the order
\* in which the per-ticket tasks are scheduled.
C20_AtMostFiveConcurrent ==
    bulk.pc = "gather" =>
        /\ Cardinality(Processing) <= 5
        /\ semaphore = 5 - Cardinality(Processing)

\* C20 witness: five tickets are being processed while another one waits for the
\* semaphore
C20_Witness ==
    /\ bulk.pc = "gather"
    /\ Len(ticketTasks) > 5
    /\ Cardinality(Processing) = 5
    /\ \E i \in DOMAIN ticketTasks : ticketTasks[i].pc = "waiting"

\* C21: the list a bulk operation returns (model initialised) has exactly one
\* result per input ticket, in input order, whatever the order in which the
\* per-ticket tasks completed and whichever of them failed.
C21_OneResultPerTicketInOrder ==
    (bulk.pc = "returned" /\ (bulk.kind = "classify" => bulk.model)) =>
        /\ Len(bulk.results) = bulk.tickets
        /\ \A i \in 1..Len(bulk.results) : bulk.results[i] = ticketTasks[i].result

\* C21 witness: a bulk call over several tickets has returned, with a failed
\* ticket before a successful one
C21_Witness ==
    /\ bulk.pc = "returned"
    /\ bulk.tickets >= 3
    /\ Len(bulk.results) = bulk.tickets
    /\ \E i, j \in 1..Len(bulk.results) :
          i < j /\ bulk.results[i] = "error" /\ bulk.results[j] = "result"

(***************************************************************************)
(* Further claims about the orchestrator (checked under Spec)              *)
(***************************************************************************)
\* the state keys each stage owns
StageFields == [classify |-> {"classification"},
                retrieve_context |-> {"context", "citations"},
                delay_before_response |-> {},
                generate_response |-> {"response"}]

\* a step taken by a stage keeps every key and changes only the stage's own
StageWritesOwnFields ==
    pc \in DOMAIN StageFields =>
        /\ DOMAIN state \subseteq DOMAIN state'
        /\ \A k \in DOMAIN state' :
              (k \notin DOMAIN state \/ state'[k] # state[k]) => k \in StageFields[pc]

\* C22: a stage adds or overwrites only its own fields of the pipeline state
\* (Classify: classification; Retrieve: context and citations; Generate: the
\* response) and removes or overwrites no key set upstream; the delay stage
\* changes no field.
C22_StagesWriteOwnFields == [][StageWritesOwnFields]_vars

\* C22 witness: all four stages have run on a query and the query, the
\* classification and the context written upstream are still in the state
C22_Witness ==
    /\ pc = "END"
    /\ trace = <<"classify", "retrieve_context", "delay_before_response",
                 "generate_response">>
    /\ DOMAIN state = {"query", "classification", "context", "response"}
    /\ state["query"] = "q1"
    /\ state["classification"] = ValidClassification
    /\ state["context"].kind \notin {"None", "error_no_query", "error_embedding"}

(***************************************************************************)
(* Claims about the shared vector-store client (checked under SpecClient)  *)
(***************************************************************************)
\* C23: the vector-store connection is reused: once a search has run on a
\* connection, the next search runs on that same connection, not on a new one,
\* unless a health check found the connection dead.
C23_LaterSearchesReuseConnection ==
    \A i \in 2..Len(searches) :
        searches[i] # searches[i - 1] => conns[searches[i - 1]].found_dead

\* no connection has been closed or has died yet: the callers seen so far are
\* first users
FirstUse ==
    \A k \in DOMAIN conns : conns[k].state = "open" /\ conns[k].alive

\* C24: lazy initialisation of the shared client is safe under concurrent first
\* use by threads or tasks: exactly one connection is created, every caller's
\* search gets that connection, and no created connection is left open without
\* being the shared client.
C24_OneClientForConcurrentFirstCallers ==
    /\ FirstUse => Len(conns) <= 1
    /\ FirstUse => \A c \in DOMAIN callers :
                      callers[c].pc = "searching" => callers[c].conn = client
    /\ \A k \in DOMAIN conns : conns[k].state = "open" => k = client

\* C27: while a caller's search is in flight on the shared client, no other
\* caller closes that client.
C27_NoCloseUnderSearchInFlight ==
    \A c \in DOMAIN callers :
        callers[c].pc = "searching" => conns[callers[c].conn].state = "open"

(***************************************************************************)
(* Further claims about the chunker (checked under SpecChunk)              *)
(***************************************************************************)
\* the batch sentence i falls in, and its position in that batch
BatchIndex(i) == (i - 1) \div BatchSize + 1
PositionInBatch(i) == ((i - 1) % BatchSize) + 1

\* the vector sentence i is due: the provider's, or the zero vector when the
\* embedding call of its batch failed
VectorDue(i) ==
    IF provider[BatchIndex(i)].outcome = "vectors"
    THEN provider[BatchIndex(i)].vectors[PositionInBatch(i)]
    ELSE ZeroVector

\* C25: after the embedding step there is one vector per sentence and vector i
\* belongs to sentence i: the provider's vector, or a zero vector if the
\* embedding call of the sentence's batch failed, whichever batches fail.
C25_ZeroVectorsKeepAlignment ==
    (Chunked /\ workflow.sentences # <<>>) =>
        /\ Len(workflow.embeddings) = Len(workflow.sentences)
        /\ \A i \in 1..Len(workflow.sentences) : workflow.embeddings[i] = VectorDue(i)

\* C26: the method label of every emitted chunk tells how it was produced: a
\* chunk of the fixed-size fallback splitter is labelled fallback, and a chunk
\* is labelled semantic only if semantic boundary detection produced it.
C26_MethodLabelTellsProducer ==
    \A i \in 1..Len(processed.payloads) :
        /\ processed.path = "fallback" => processed.payloads[i].chunk_method = "fallback"
        /\ processed.payloads[i].chunk_method = "semantic" => processed.path = "semantic"

(***************************************************************************)
(* Claims about ticket processing (checked under SpecTicket)               *)
(***************************************************************************)
\* a classification with topic_tags, sentiment and priority
HasFullClassification(ticket) ==
    /\ ticket.classification.kind = "dict"
    /\ ticket.classification.topic_tags # <<>>
    /\ ticket.classification.sentiment # ""
    /\ ticket.classification.priority # ""

\* C28: a ticket is marked processed, in the returned ticket and in the ticket
\* store, only if its classification succeeded: every processed ticket carries
\* a classification with topic_tags, sentiment and priority.
C28_ProcessedImpliesClassified ==
    /\ tstate.ticket.processed => HasFullClassification(tstate.ticket)
    /\ ticketDb.processed => HasFullClassification(ticketDb)

\* C29: after ResolutionAgent.execute, resolution_status is 'completed' only if
\* the resolution's status is 'resolved' or 'routed', never if it is 'error'.
C29_CompletedOnlyIfResolvedOrRouted ==
    (tpc = "END" /\ tstate.resolution_status = "completed") =>
        tstate.resolution.status \in {"resolved", "routed"}

(***************************************************************************)
(* Further claim about the vector store (checked under SpecStore)          *)
(***************************************************************************)
\* C30: upserting the same processed documents into a collection twice leaves
\* the collection with one point per chunk id, as upserting them once does:
\* no two points of a collection carry the same chunk id (original_id).
C30_UpsertTwiceSameAsOnce ==
    \A name \in Collections :
        \A p, q \in store[name].points : p.original_id = q.original_id => p = q

====
